---------------------------- MODULE Spec2Model ----------------------------
(***************************************************************************)
(* Model of the notification worker (package worker): the RocketMQ         *)
(* consumer callback Worker.HandleMessage, the dead-letter publish         *)
(* Worker.sendToDLQ and the HTTP delivery Worker.processNotification with  *)
(* its local retry loop, together with Config.FindNotificationConfig.      *)
(*                                                                         *)
(* One behaviour is one invocation of HandleMessage on one batch.  The     *)
(* environment is the broker (which chooses the batch), the dead-letter    *)
(* producer (whose SendSync succeeds or fails) and the HTTP endpoint       *)
(* (which answers every request with a transport error or a status).      *)
(***************************************************************************)
EXTENDS Integers, Sequences, FiniteSets, TLC

(***************************************************************************)
(* Bounds of the model.                                                    *)
(***************************************************************************)
\* longest batch handed to one HandleMessage call
MaxBatch == 2
\* largest mq.max_retries of a validated configuration
MaxRetriesCfg == 2
\* largest ReconsumeTimes the broker stamps on a message
MaxReconsume == 3

(***************************************************************************)
(* Values.                                                                 *)
(***************************************************************************)
ConsumeSuccess == "ConsumeSuccess"
ConsumeRetryLater == "ConsumeRetryLater"

\* message bodies the broker may carry
BadBody == "not-json"
RegistrationBody == "{\"id\":\"e1\",\"type\":\"registration\",\"data\":{\"user_id\":\"42\"}}"
PaymentBody == "{\"id\":\"e2\",\"type\":\"payment\",\"data\":{\"amount\":100}}"
Bodies == {BadBody, RegistrationBody, PaymentBody}

Topics == {"registration_queue"}
PropertyMaps == {[TRACE_ID |-> "t1"]}

Messages ==
    [Topic : Topics, Body : Bodies, ReconsumeTimes : 0..MaxReconsume,
     Properties : PropertyMaps]

Batches == UNION {[1..n -> Messages] : n \in 1..MaxBatch}

\* the routing rules of config.json (README, "配置文件")
Notifications ==
    << [EventType |-> "registration", QueueName |-> "registration_queue",
        Method |-> "POST", URL |-> "https://httpbin.org/post"] >>

\* configurations that passed Config.Validate
Configs ==
    [MQ : [MaxRetries : 1..MaxRetriesCfg], Notifications : {Notifications}]

\* what http.Client.Do hands back: a transport error, or a response status
TransportError == [err |-> TRUE, StatusCode |-> 0]
Response(s) == [err |-> FALSE, StatusCode |-> s]
StatusCodes == {200, 204, 304, 400, 401, 403, 404, 409, 429, 503}
Outcomes == {TransportError} \cup {Response(s) : s \in StatusCodes}

\* the error value of processNotification: nil, or what an attempt recorded
NoError == [kind |-> "nil", attempt |-> 0, StatusCode |-> 0]
NetworkError(n) == [kind |-> "network", attempt |-> n, StatusCode |-> 0]
ClientError(n, s) == [kind |-> "client", attempt |-> n, StatusCode |-> s]
StatusError(n, s) == [kind |-> "status", attempt |-> n, StatusCode |-> s]

NoEvent == [ok |-> FALSE, ID |-> "", Type |-> ""]

VARIABLES
    config,       \* Worker.Config: MQ.MaxRetries and Notifications
    pc,           \* position of the invocation of HandleMessage
    msgs,         \* the batch HandleMessage was called with
    dlqUp,        \* whether DLQProducer.SendSync succeeds in this invocation
    idx,          \* position of the range loop over msgs (1-based)
    evt,          \* the decoded event of the current message
    notifyConfig, \* index of the matched rule in Notifications, 0 for nil
    i,            \* loop counter of the local retry loop
    lastErr,      \* lastErr of processNotification
    err,          \* value returned by processNotification
    result,       \* value returned by HandleMessage, "none" while it runs
    attempts,     \* outcomes of the HTTP requests of the current delivery
    sleeps,       \* time.Sleep calls of the current delivery, in milliseconds
    steps,        \* per message: the steps HandleMessage performed on it
    fate,         \* per message: how HandleMessage resolved it
    httpCount,    \* per message: number of HTTP requests issued for it
    dlq,          \* messages the dead-letter producer has published
    cancelled,    \* whether the ctx passed to HandleMessage is cancelled
    other,        \* the local state of a second, descheduled invocation
    history,      \* the broker's view of the earlier deliveries of a message
    tmpl,         \* a body template handed to renderBody
    data,         \* evt.Data handed to renderBody
    rendered,     \* what replacePlaceholders returned
    validateErr   \* what Config.Validate returned

\* the state HandleMessage and processNotification keep on their stack
locals ==
    << pc, msgs, dlqUp, idx, evt, notifyConfig, i, lastErr, err, result,
       attempts, sleeps, steps, fate, httpCount >>

\* the state around one invocation of HandleMessage
aux == << cancelled, other, history, tmpl, data, rendered, validateErr >>

vars ==
    << config, pc, msgs, dlqUp, idx, evt, notifyConfig, i, lastErr, err,
       result, attempts, sleeps, steps, fate, httpCount, dlq, aux >>

(***************************************************************************)
(* Pure parts of the code.                                                 *)
(***************************************************************************)
\* json.Unmarshal(msg.Body, &evt) on the bodies above
Unmarshal(body) ==
    CASE body = RegistrationBody -> [ok |-> TRUE, ID |-> "e1", Type |-> "registration"]
      [] body = PaymentBody -> [ok |-> TRUE, ID |-> "e2", Type |-> "payment"]
      [] OTHER -> NoEvent

\* Config.FindNotificationConfig: the first rule whose EventType equals
\* eventType, as its index in Notifications; 0 stands for nil
FindNotificationConfig(eventType) ==
    LET matches == {n \in 1..Len(config.Notifications) :
                        config.Notifications[n].EventType = eventType}
    IN  IF matches = {} THEN 0
        ELSE CHOOSE n \in matches : \A m \in matches : n <= m

\* a variant that keeps the current message in a field of the Worker, where
\* a concurrent invocation overwrites it
ExceededMaxRetries_SharedMsg(msg) ==
    (IF Len(other[2]) > 0 THEN other[2][1] ELSE msg).ReconsumeTimes
        >= config.MQ.MaxRetries

\* a variant that escalates on the delivery numbered max_retries only
ExceededMaxRetries_Exact(msg) == msg.ReconsumeTimes = config.MQ.MaxRetries

\* a variant that escalates one delivery later
ExceededMaxRetries_Strict(msg) == msg.ReconsumeTimes > config.MQ.MaxRetries

\* the dead-letter test of HandleMessage
ExceededMaxRetries(msg) == msg.ReconsumeTimes >= config.MQ.MaxRetries

\* a variant that acknowledges whatever sendToDLQ returned
DLQResult_AlwaysAck(sendErr) == ConsumeSuccess

\* what HandleMessage returns after sendToDLQ (sendErr: SendSync failed)
DLQResult(sendErr) == IF sendErr THEN ConsumeRetryLater ELSE ConsumeSuccess

\* a variant that asks for redelivery of an undecodable body
UnmarshalErrorResult_Retry == ConsumeRetryLater

\* what HandleMessage returns for a body that does not decode
UnmarshalErrorResult == ConsumeSuccess

\* what HandleMessage returns for an event type without a rule
NoConfigResult == ConsumeSuccess

\* a variant that publishes to the source topic
DLQMessage_SameTopic(msg) ==
    [Topic |-> msg.Topic, Body |-> msg.Body, Properties |-> msg.Properties]

\* the message sendToDLQ builds
DLQMessage(msg) ==
    [Topic |-> "DLQ_" \o msg.Topic, Body |-> msg.Body, Properties |-> msg.Properties]

maxLocalRetries == 3

RECURSIVE Pow2(_)
Pow2(n) == IF n = 0 THEN 1 ELSE 2 * Pow2(n - 1)

\* a variant whose exponent is one too small (100ms, 200ms)
backoff_FromHundred(n) == Pow2(n - 1) * 100

\* time.Duration(math.Pow(2, float64(i))) * 100 * time.Millisecond, in ms
backoff(n) == Pow2(n) * 100

\* a variant that accepts 200 only
IsSuccessStatus_Only200(s) == s = 200

\* resp.StatusCode >= 200 && resp.StatusCode < 300
IsSuccessStatus(s) == s >= 200 /\ s < 300

\* a variant that never fails fast
IsClientErrorStatus_NoFailFast(s) == FALSE

\* a variant that fails fast on 400, 401, 403 and 404 only
IsClientErrorStatus_Listed(s) == s \in {400, 401, 403, 404}

\* resp.StatusCode >= 400 && resp.StatusCode < 500 && resp.StatusCode != 429
IsClientErrorStatus(s) == s >= 400 /\ s < 500 /\ s # 429

\* a variant that keeps the first recorded error
RecordError_KeepFirst(old, new) == IF old.kind = "nil" THEN new ELSE old

\* lastErr = fmt.Errorf(...): the new error replaces the recorded one
RecordError(old, new) == new

\* the head of the retry loop for counter value n: leave the loop when
\* n >= maxLocalRetries, sleep first when n > 0, else go on to the request
NextIteration(n) ==
    IF n < maxLocalRetries THEN (IF n > 0 THEN "sleep" ELSE "request") ELSE "exhausted"

\* a variant that ignores the error of processNotification
AfterProcessNotification_IgnoreError(e) == "next"

\* what HandleMessage does with the error of processNotification:
\* "retry" returns ConsumeRetryLater, "next" goes on with the batch
AfterProcessNotification(e) == IF e.kind # "nil" THEN "retry" ELSE "next"

\* the locals of an invocation that has not started
IdleLocals ==
    << "idle", << >>, TRUE, 0, NoEvent, 0, 0, NoError, NoError, "none",
       << >>, << >>, << >>, << >>, << >> >>

\* what the broker knows of a message it has not yet delivered:
\*   delivers   earlier callbacks that called processNotification
\*   requests   HTTP requests issued by the earlier callbacks
\*   dlqFailed  TRUE when sendToDLQ returned an error in an earlier callback
NoHistory == [delivers |-> 0, requests |-> 0, dlqFailed |-> FALSE]

\* the error value of Config.Validate: nil, or the message and the index of
\* the rule it names (-1 for the mq section)
NoValidateError == [msg |-> "nil", index |-> -1]
ValidateErr(m, n) == [msg |-> m, index |-> n]

\* a JSON null
JNull == [t |-> "null", v |-> 0]

(***************************************************************************)
(* Initial state: a validated configuration, the handler not yet called.   *)
(***************************************************************************)
Init ==
    /\ config \in Configs
    /\ pc = "idle"
    /\ msgs = << >>
    /\ dlqUp = TRUE
    /\ idx = 0
    /\ evt = NoEvent
    /\ notifyConfig = 0
    /\ i = 0
    /\ lastErr = NoError
    /\ err = NoError
    /\ result = "none"
    /\ attempts = << >>
    /\ sleeps = << >>
    /\ steps = << >>
    /\ fate = << >>
    /\ httpCount = << >>
    /\ dlq = << >>
    /\ cancelled = FALSE
    /\ other = IdleLocals
    /\ history = NoHistory
    /\ tmpl = JNull
    /\ data = << >>
    /\ rendered = JNull
    /\ validateErr = NoValidateError

(***************************************************************************)
(* HandleMessage, step by step.                                            *)
(***************************************************************************)
\* the consumer calls HandleMessage(ctx, msgs...)
Invoke(B) ==
    /\ pc = "idle"
    /\ \E batch \in B, up \in BOOLEAN :
          /\ msgs' = batch
          /\ dlqUp' = up
          /\ steps' = [k \in 1..Len(batch) |-> {}]
          /\ fate' = [k \in 1..Len(batch) |-> "unexamined"]
          /\ httpCount' = [k \in 1..Len(batch) |-> 0]
    /\ idx' = 1
    /\ pc' = "loop"
    /\ UNCHANGED << config, evt, notifyConfig, i, lastErr, err, result,
                    attempts, sleeps, dlq >>
    /\ UNCHANGED aux

HandleMessage == Invoke(Batches)

\* the range loop is exhausted: return consumer.ConsumeSuccess
LoopExit ==
    /\ pc = "loop"
    /\ idx > Len(msgs)
    /\ result' = ConsumeSuccess
    /\ pc' = "done"
    /\ UNCHANGED << config, msgs, dlqUp, idx, evt, notifyConfig, i, lastErr,
                    err, attempts, sleeps, steps, fate, httpCount, dlq >>
    /\ UNCHANGED aux

\* ReconsumeTimes >= MaxRetries: sendToDLQ, then return
SendToDLQ ==
    /\ pc = "loop"
    /\ idx <= Len(msgs)
    /\ ExceededMaxRetries(msgs[idx])
    /\ dlq' = IF dlqUp THEN Append(dlq, DLQMessage(msgs[idx])) ELSE dlq
    /\ steps' = [steps EXCEPT ![idx] = @ \cup {"dlq"}]
    /\ fate' = [fate EXCEPT ![idx] = IF dlqUp THEN "deadLettered" ELSE "dlqFailed"]
    /\ result' = DLQResult(~dlqUp)
    /\ pc' = "done"
    /\ UNCHANGED << config, msgs, dlqUp, idx, evt, notifyConfig, i, lastErr,
                    err, attempts, sleeps, httpCount >>
    /\ UNCHANGED aux

\* json.Unmarshal fails: return ConsumeSuccess
UnmarshalError ==
    /\ pc = "loop"
    /\ idx <= Len(msgs)
    /\ ~ExceededMaxRetries(msgs[idx])
    /\ ~Unmarshal(msgs[idx].Body).ok
    /\ steps' = [steps EXCEPT ![idx] = @ \cup {"decode"}]
    /\ fate' = [fate EXCEPT ![idx] = "undecodable"]
    /\ result' = UnmarshalErrorResult
    /\ pc' = "done"
    /\ UNCHANGED << config, msgs, dlqUp, idx, evt, notifyConfig, i, lastErr,
                    err, attempts, sleeps, httpCount, dlq >>
    /\ UNCHANGED aux

\* FindNotificationConfig returns nil: return ConsumeSuccess
NoConfig ==
    /\ pc = "loop"
    /\ idx <= Len(msgs)
    /\ ~ExceededMaxRetries(msgs[idx])
    /\ Unmarshal(msgs[idx].Body).ok
    /\ FindNotificationConfig(Unmarshal(msgs[idx].Body).Type) = 0
    /\ evt' = Unmarshal(msgs[idx].Body)
    /\ notifyConfig' = 0
    /\ steps' = [steps EXCEPT ![idx] = @ \cup {"decode", "lookup"}]
    /\ fate' = [fate EXCEPT ![idx] = "unrouted"]
    /\ result' = NoConfigResult
    /\ pc' = "done"
    /\ UNCHANGED << config, msgs, dlqUp, idx, i, lastErr, err, attempts,
                    sleeps, httpCount, dlq >>
    /\ UNCHANGED aux

\* a rule is found: processNotification is entered, the body is rendered and
\* the retry loop starts with i = 0
EnterProcessNotification ==
    /\ pc = "loop"
    /\ idx <= Len(msgs)
    /\ ~ExceededMaxRetries(msgs[idx])
    /\ Unmarshal(msgs[idx].Body).ok
    /\ FindNotificationConfig(Unmarshal(msgs[idx].Body).Type) # 0
    /\ evt' = Unmarshal(msgs[idx].Body)
    /\ notifyConfig' = FindNotificationConfig(Unmarshal(msgs[idx].Body).Type)
    /\ steps' = [steps EXCEPT ![idx] = @ \cup {"decode", "lookup", "render"}]
    /\ i' = 0
    /\ lastErr' = NoError
    /\ err' = NoError
    /\ attempts' = << >>
    /\ sleeps' = << >>
    /\ pc' = NextIteration(0)
    /\ UNCHANGED << config, msgs, dlqUp, idx, result, fate, httpCount, dlq >>
    /\ UNCHANGED aux

\* i > 0: time.Sleep(backoff) before the next request
Sleep ==
    /\ pc = "sleep"
    /\ sleeps' = Append(sleeps, backoff(i))
    /\ pc' = "request"
    /\ UNCHANGED << config, msgs, dlqUp, idx, evt, notifyConfig, i, lastErr,
                    err, result, attempts, steps, fate, httpCount, dlq >>
    /\ UNCHANGED aux

\* one pass of the loop body from http.NewRequest on: w.Client.Do(req)
\* answers with outcome o, and the response is classified
Request(o) ==
    /\ pc = "request"
    /\ attempts' = Append(attempts, o)
    /\ httpCount' = [httpCount EXCEPT ![idx] = @ + 1]
    /\ steps' = [steps EXCEPT ![idx] = @ \cup {"http"}]
    /\ IF o.err
          THEN /\ lastErr' = RecordError(lastErr, NetworkError(i + 1))
               /\ i' = i + 1
               /\ pc' = NextIteration(i + 1)
               /\ err' = err
          ELSE IF IsSuccessStatus(o.StatusCode)
          THEN /\ err' = NoError
               /\ pc' = "returned"
               /\ UNCHANGED << i, lastErr >>
          ELSE IF IsClientErrorStatus(o.StatusCode)
          THEN /\ err' = ClientError(i + 1, o.StatusCode)
               /\ pc' = "returned"
               /\ UNCHANGED << i, lastErr >>
          ELSE /\ lastErr' = RecordError(lastErr, StatusError(i + 1, o.StatusCode))
               /\ i' = i + 1
               /\ pc' = NextIteration(i + 1)
               /\ err' = err
    /\ UNCHANGED << config, msgs, dlqUp, idx, evt, notifyConfig, result,
                    sleeps, fate, dlq >>
    /\ UNCHANGED aux

DoRequestFrom(O) == \E o \in O : Request(o)

DoRequest == DoRequestFrom(Outcomes)

\* the retry loop is exhausted: return lastErr
ReturnLastErr ==
    /\ pc = "exhausted"
    /\ err' = lastErr
    /\ pc' = "returned"
    /\ UNCHANGED << config, msgs, dlqUp, idx, evt, notifyConfig, i, lastErr,
                    result, attempts, sleeps, steps, fate, httpCount, dlq >>
    /\ UNCHANGED aux

\* back in HandleMessage after processNotification
ProcessNotificationReturns ==
    /\ pc = "returned"
    /\ IF AfterProcessNotification(err) = "retry"
          THEN /\ fate' = [fate EXCEPT ![idx] = "deliverFailed"]
               /\ result' = ConsumeRetryLater
               /\ pc' = "done"
               /\ idx' = idx
          ELSE /\ fate' = [fate EXCEPT ![idx] = "delivered"]
               /\ idx' = idx + 1
               /\ pc' = "loop"
               /\ result' = result
    /\ UNCHANGED << config, msgs, dlqUp, evt, notifyConfig, i, lastErr, err,
                    attempts, sleeps, steps, httpCount, dlq >>
    /\ UNCHANGED aux

Next ==
    \/ HandleMessage
    \/ LoopExit
    \/ SendToDLQ
    \/ UnmarshalError
    \/ NoConfig
    \/ EnterProcessNotification
    \/ Sleep
    \/ DoRequest
    \/ ReturnLastErr
    \/ ProcessNotificationReturns

Spec == Init /\ [][Next]_vars

(***************************************************************************)
(* Vocabulary of the properties.                                           *)
(***************************************************************************)
\* the invocation has returned and its batch held one message
SingleDone == pc = "done" /\ Len(msgs) = 1

\* the first message is below the dead-letter threshold
BelowThreshold(m) == m.ReconsumeTimes < config.MQ.MaxRetries

\* the body decodes and its event type has a routing rule
Routed(m) ==
    /\ m.Body \in {RegistrationBody, PaymentBody}
    /\ \E n \in 1..Len(config.Notifications) :
          config.Notifications[n].EventType =
              (IF m.Body = RegistrationBody THEN "registration" ELSE "payment")

\* the processNotification call of the current message is over
DeliverOver == pc \in {"returned", "done", "loop"}

\* the retry loop of the current delivery goes on to another attempt
LoopGoesOn == pc \in {"sleep", "request"}

Is2xx(o) == ~o.err /\ o.StatusCode \in 200..299
Is4xxNot429(o) == ~o.err /\ o.StatusCode \in 400..499 /\ o.StatusCode # 429
IsListedClientError(o) == ~o.err /\ o.StatusCode \in {400, 401, 403, 404}

\* the error an attempt with outcome o records as attempt number n
ErrorOf(n, o) ==
    IF o.err THEN NetworkError(n) ELSE StatusError(n, o.StatusCode)

\* the sleeps that precede attempts 2 and 3
Ladder == << 200, 400 >>

(***************************************************************************)
(* C1.  Single-message delivery with ReconsumeTimes >= MaxRetries: the     *)
(* message is handed to the dead-letter producer; the handler returns      *)
(* ConsumeSuccess when the publish succeeded (and the dead-letter topic    *)
(* then holds one message) and ConsumeRetryLater when it failed (and the   *)
(* topic holds none); never ConsumeSuccess after a failed publish.         *)
(***************************************************************************)
C1_DeadLetterDisposition ==
    (SingleDone /\ msgs[1].ReconsumeTimes >= config.MQ.MaxRetries) =>
        /\ "dlq" \in steps[1]
        /\ dlqUp => (result = ConsumeSuccess /\ Len(dlq) = 1)
        /\ ~dlqUp => (result = ConsumeRetryLater /\ Len(dlq) = 0)

C1_Witness ==
    /\ SingleDone
    /\ msgs[1].ReconsumeTimes = config.MQ.MaxRetries
    /\ ~dlqUp
    /\ fate[1] = "dlqFailed"
    /\ result = ConsumeRetryLater

(***************************************************************************)
(* C2.  Every message HandleMessage works on takes the dead-letter path    *)
(* if and only if its ReconsumeTimes >= MaxRetries.  At or above the       *)
(* threshold the only step is the dead-letter publish: no decode, no rule  *)
(* lookup, no render, no HTTP request.  Below it there is no dead-letter   *)
(* publish and the message goes through decode, then (if it decodes) the   *)
(* rule lookup, then (if a rule exists) render and at least one HTTP       *)
(* request before it is resolved.  The first message of a batch is always  *)
(* worked on.                                                              *)
(***************************************************************************)
C2_EscalateIffThreshold ==
    /\ pc = "done" => steps[1] # {}
    /\ \A k \in 1..Len(msgs) :
        steps[k] # {} =>
            IF msgs[k].ReconsumeTimes >= config.MQ.MaxRetries
            THEN /\ steps[k] = {"dlq"}
                 /\ httpCount[k] = 0
                 /\ fate[k] \in {"deadLettered", "dlqFailed"}
            ELSE /\ "dlq" \notin steps[k]
                 /\ "decode" \in steps[k]
                 /\ fate[k] \notin {"deadLettered", "dlqFailed"}
                 /\ msgs[k].Body # BadBody => "lookup" \in steps[k]
                 /\ Routed(msgs[k]) => "render" \in steps[k]
                 /\ (Routed(msgs[k]) /\ fate[k] # "unexamined") =>
                        (httpCount[k] >= 1 /\ "http" \in steps[k])

C2_Witness ==
    /\ pc = "done"
    /\ Len(msgs) = 2
    /\ msgs[1].ReconsumeTimes = config.MQ.MaxRetries - 1
    /\ fate[1] = "delivered"
    /\ httpCount[1] >= 1
    /\ msgs[2].ReconsumeTimes = config.MQ.MaxRetries
    /\ fate[2] = "deadLettered"
    /\ httpCount[2] = 0

(***************************************************************************)
(* C3.  Single-message delivery below the threshold whose body decodes     *)
(* and whose type has a rule: the handler returns ConsumeSuccess exactly   *)
(* when processNotification returned nil, which is exactly when the last   *)
(* HTTP attempt was answered 2xx; in every other case (three retryable     *)
(* failures, or a terminal client error) it returns ConsumeRetryLater.     *)
(***************************************************************************)
C3_AckIffDelivered ==
    (SingleDone /\ BelowThreshold(msgs[1]) /\ Routed(msgs[1])) =>
        /\ Len(attempts) >= 1
        /\ result \in {ConsumeSuccess, ConsumeRetryLater}
        /\ result = ConsumeSuccess <=> err = NoError
        /\ result = ConsumeSuccess <=> Is2xx(attempts[Len(attempts)])
        /\ result = ConsumeRetryLater <=> fate[1] = "deliverFailed"

C3_Witness ==
    /\ SingleDone
    /\ BelowThreshold(msgs[1])
    /\ Routed(msgs[1])
    /\ Len(attempts) = 3
    /\ \A n \in 1..3 : ~Is2xx(attempts[n])
    /\ result = ConsumeRetryLater

(***************************************************************************)
(* C4.  If any message of the batch resolves to ConsumeRetryLater under    *)
(* the per-message state machine, the call returns ConsumeRetryLater.  A   *)
(* message resolves to ConsumeRetryLater when its delivery failed, when    *)
(* its dead-letter publish failed, or, for a message the loop never        *)
(* reached, when it is at the threshold while the dead-letter producer is  *)
(* down.                                                                   *)
(***************************************************************************)
ResolvesToRetryLater(k) ==
    \/ fate[k] \in {"dlqFailed", "deliverFailed"}
    \/ /\ fate[k] = "unexamined"
       /\ msgs[k].ReconsumeTimes >= config.MQ.MaxRetries
       /\ ~dlqUp

C4_BatchRetryLater ==
    (pc = "done" /\ \E k \in 1..Len(msgs) : ResolvesToRetryLater(k)) =>
        result = ConsumeRetryLater

(***************************************************************************)
(* C5.  When HandleMessage returns ConsumeSuccess, every message of the    *)
(* batch has been resolved: delivered with a 2xx response, published to    *)
(* the dead-letter topic, or dropped as undecodable or unrouted.           *)
(***************************************************************************)
C5_AckMeansAllResolved ==
    (pc = "done" /\ result = ConsumeSuccess) =>
        \A k \in 1..Len(msgs) :
            fate[k] \in {"delivered", "deadLettered", "undecodable", "unrouted"}

(***************************************************************************)
(* C6.  Single-message delivery below the threshold with an undecodable    *)
(* body or an event type without a rule: the handler returns               *)
(* ConsumeSuccess, issues no HTTP request and publishes nothing to the     *)
(* dead-letter topic.                                                      *)
(***************************************************************************)
C6_UnrecoverableIsAcked ==
    (SingleDone /\ BelowThreshold(msgs[1]) /\ ~Routed(msgs[1])) =>
        /\ result = ConsumeSuccess
        /\ httpCount[1] = 0
        /\ "http" \notin steps[1]
        /\ "dlq" \notin steps[1]
        /\ dlq = << >>
        /\ fate[1] = (IF msgs[1].Body = BadBody THEN "undecodable" ELSE "unrouted")

C6_Witness ==
    /\ SingleDone
    /\ BelowThreshold(msgs[1])
    /\ msgs[1].Body = BadBody
    /\ result = ConsumeSuccess
    /\ httpCount[1] = 0

(***************************************************************************)
(* C7.  One processNotification call makes at most 3 HTTP attempts, and    *)
(* the sleeps are exactly those of the ladder 200ms, 400ms: none before    *)
(* attempt 1, 200ms before attempt 2, 400ms before attempt 3, no other.    *)
(***************************************************************************)
C7_AttemptsAndSleeps ==
    /\ Len(attempts) <= 3
    /\ Len(sleeps) <= 2
    /\ sleeps = SubSeq(Ladder, 1, Len(sleeps))
    /\ Len(sleeps) =
          IF pc = "request" THEN Len(attempts)
          ELSE IF Len(attempts) = 0 THEN 0 ELSE Len(attempts) - 1

C7_Witness ==
    /\ pc = "returned"
    /\ attempts = << Response(503), Response(503), Response(200) >>
    /\ sleeps = << 200, 400 >>
    /\ err = NoError

(***************************************************************************)
(* C8 as claimed.  A status in {400, 401, 403, 404} ends the call as a     *)
(* failure after that attempt, with no further attempt and no sleep;       *)
(* every other non-2xx status is retryable: its error is recorded and the  *)
(* loop goes on to the next attempt while attempts remain.                 *)
(***************************************************************************)
C8_ListedTerminalOthersRetry ==
    \A n \in 1..Len(attempts) :
        LET o == attempts[n] IN
        /\ IsListedClientError(o) =>
              /\ n = Len(attempts)
              /\ Len(sleeps) = n - 1
              /\ ~LoopGoesOn
              /\ err = ClientError(n, o.StatusCode)
        /\ (~o.err /\ ~Is2xx(o) /\ ~IsListedClientError(o)
              /\ n = Len(attempts) /\ n < maxLocalRetries) =>
              /\ LoopGoesOn
              /\ lastErr = StatusError(n, o.StatusCode)

(***************************************************************************)
(* C8 as amended.  Every 4xx status other than 429 ends the call as a      *)
(* failure after that attempt, with no further attempt and no sleep;       *)
(* every other non-2xx status (5xx, 429, and statuses outside 4xx and 5xx) *)
(* is retryable: its error is recorded and the loop goes on to the next    *)
(* attempt while attempts remain.                                          *)
(***************************************************************************)
C8_ClientErrorsTerminal ==
    \A n \in 1..Len(attempts) :
        LET o == attempts[n] IN
        /\ Is4xxNot429(o) =>
              /\ n = Len(attempts)
              /\ Len(sleeps) = n - 1
              /\ ~LoopGoesOn
              /\ pc # "exhausted"
              /\ err = ClientError(n, o.StatusCode)
        /\ (~o.err /\ ~Is2xx(o) /\ ~Is4xxNot429(o) /\ n = Len(attempts)) =>
              /\ lastErr = StatusError(n, o.StatusCode)
              /\ n < maxLocalRetries => LoopGoesOn
              /\ n = maxLocalRetries =>
                    (pc = "exhausted" \/ (DeliverOver /\ err = lastErr))

C8_Witness ==
    /\ pc = "returned"
    /\ attempts = << Response(409) >>
    /\ sleeps = << >>
    /\ err = ClientError(1, 409)

(***************************************************************************)
(* C9.  The first 2xx response, on whichever attempt, ends the call with   *)
(* success: it is the last attempt, no sleep follows it, and the call      *)
(* returns nil whatever earlier attempts recorded.                         *)
(***************************************************************************)
C9_SuccessReturnsAtOnce ==
    \A n \in 1..Len(attempts) :
        Is2xx(attempts[n]) =>
            /\ n = Len(attempts)
            /\ Len(sleeps) = n - 1
            /\ DeliverOver
            /\ err = NoError

C9_Witness ==
    /\ pc = "returned"
    /\ Len(attempts) = 2
    /\ attempts[1] = TransportError
    /\ attempts[2] = Response(204)
    /\ lastErr = NetworkError(1)
    /\ err = NoError

(***************************************************************************)
(* C10.  When all 3 attempts ended in retryable failures (transport        *)
(* errors or retryable statuses), processNotification returns the error    *)
(* recorded by the third attempt.                                          *)
(***************************************************************************)
RetryableFailure(o) == o.err \/ (~Is2xx(o) /\ ~Is4xxNot429(o))

C10_LastErrorReturned ==
    (DeliverOver /\ Len(attempts) = 3 /\ \A n \in 1..3 : RetryableFailure(attempts[n])) =>
        /\ err = ErrorOf(3, attempts[3])
        /\ err # ErrorOf(1, attempts[1])
        /\ err # ErrorOf(2, attempts[2])

C10_Witness ==
    /\ pc = "returned"
    /\ attempts = << TransportError, Response(429), Response(503) >>
    /\ err = StatusError(3, 503)

(***************************************************************************)
(* C11.  A response with a 4xx status other than 429 is the last attempt   *)
(* of its processNotification call (the local retry is skipped), and the   *)
(* handler then returns ConsumeRetryLater for the batch.                   *)
(***************************************************************************)
C11_ClientErrorSurfacesRetryLater ==
    \A n \in 1..Len(attempts) :
        Is4xxNot429(attempts[n]) =>
            /\ n = Len(attempts)
            /\ Len(sleeps) = n - 1
            /\ pc \in {"returned", "done"}
            /\ pc = "done" =>
                  (result = ConsumeRetryLater /\ fate[idx] = "deliverFailed")

C11_Witness ==
    /\ pc = "done"
    /\ attempts = << Response(403) >>
    /\ httpCount[idx] = 1
    /\ result = ConsumeRetryLater

(***************************************************************************)
(* Single-message deliveries from two topics with two property maps.       *)
(***************************************************************************)
DLQTopics == {"registration_queue", "payment_queue"}
DLQPropertyMaps == {[TRACE_ID |-> "t1"], [TRACE_ID |-> "t2", KEYS |-> "order-7"]}

DLQBatches ==
    {<< m >> : m \in [Topic : DLQTopics, Body : Bodies,
                      ReconsumeTimes : 0..MaxReconsume,
                      Properties : DLQPropertyMaps]}

NextDLQ ==
    \/ Invoke(DLQBatches)
    \/ LoopExit
    \/ SendToDLQ
    \/ UnmarshalError
    \/ NoConfig
    \/ EnterProcessNotification
    \/ Sleep
    \/ DoRequest
    \/ ReturnLastErr
    \/ ProcessNotificationReturns

SpecDLQ == Init /\ [][NextDLQ]_vars

\* README, "DLQ Topic 命名规则"
DLQTopicOf(t) ==
    CASE t = "registration_queue" -> "DLQ_registration_queue"
      [] t = "payment_queue" -> "DLQ_payment_queue"

\* the handler is about to escalate the current message
Escalating ==
    /\ pc = "loop"
    /\ idx <= Len(msgs)
    /\ msgs[idx].ReconsumeTimes >= config.MQ.MaxRetries

(***************************************************************************)
(* C12.  The step that escalates a message appends, when SendSync          *)
(* succeeds, exactly one message to the dead-letter topic: its topic is    *)
(* "DLQ_" followed by the source topic, its body is the source body and    *)
(* its property map is the source property map.  The source message is     *)
(* unchanged by the step, and no other step publishes anything.            *)
(***************************************************************************)
C12_EscalationPublishesOriginal ==
    [][ /\ Escalating =>
              /\ msgs' = msgs
              /\ dlqUp =>
                    dlq' = Append(dlq, [Topic |-> DLQTopicOf(msgs[idx].Topic),
                                        Body |-> msgs[idx].Body,
                                        Properties |-> msgs[idx].Properties])
              /\ ~dlqUp => dlq' = dlq
        /\ ~Escalating => dlq' = dlq ]_vars

C12_Witness ==
    /\ pc = "done"
    /\ msgs = << [Topic |-> "payment_queue", Body |-> RegistrationBody,
                  ReconsumeTimes |-> config.MQ.MaxRetries,
                  Properties |-> [TRACE_ID |-> "t2", KEYS |-> "order-7"]] >>
    /\ dlq = << [Topic |-> "DLQ_payment_queue", Body |-> RegistrationBody,
                 Properties |-> [TRACE_ID |-> "t2", KEYS |-> "order-7"]] >>
    /\ result = ConsumeSuccess

(***************************************************************************)
(* Cancellation: the ctx of HandleMessage is cancelled while                *)
(* processNotification is between two steps of its retry loop.              *)
(* processNotification takes no ctx, builds its requests with               *)
(* http.NewRequest and waits with time.Sleep, so none of its steps reads    *)
(* `cancelled`.                                                             *)
(***************************************************************************)
SingleBatches == {<< m >> : m \in Messages}

Cancel ==
    /\ pc \in {"sleep", "request"}
    /\ ~cancelled
    /\ cancelled' = TRUE
    /\ UNCHANGED << config, locals, dlq, other, history, tmpl, data, rendered, validateErr >>

NextCancel ==
    \/ Invoke(SingleBatches)
    \/ Cancel
    \/ LoopExit
    \/ SendToDLQ
    \/ UnmarshalError
    \/ NoConfig
    \/ EnterProcessNotification
    \/ Sleep
    \/ DoRequest
    \/ ReturnLastErr
    \/ ProcessNotificationReturns

SpecCancel == Init /\ [][NextCancel]_vars

(***************************************************************************)
(* C13.  Once the ctx is cancelled during a delivery, no further HTTP      *)
(* request is issued and no further backoff sleep is taken.                *)
(***************************************************************************)
C13_CancelAbortsDelivery ==
    [][cancelled => (httpCount' = httpCount /\ sleeps' = sleeps)]_vars

(***************************************************************************)
(* Concurrency: the consumer runs two invocations of HandleMessage on      *)
(* different single-message batches.  The variables of `locals` are the    *)
(* stack of the invocation that is scheduled, `other` is the stack of the  *)
(* one that is not; Switch is a context switch, possible between any two   *)
(* steps.  Worker.Config and the dead-letter topic are shared.             *)
(***************************************************************************)
ConcOutcomes == {TransportError, Response(200), Response(404), Response(503)}

Switch ==
    /\ other' = locals
    /\ pc' = other[1]
    /\ msgs' = other[2]
    /\ dlqUp' = other[3]
    /\ idx' = other[4]
    /\ evt' = other[5]
    /\ notifyConfig' = other[6]
    /\ i' = other[7]
    /\ lastErr' = other[8]
    /\ err' = other[9]
    /\ result' = other[10]
    /\ attempts' = other[11]
    /\ sleeps' = other[12]
    /\ steps' = other[13]
    /\ fate' = other[14]
    /\ httpCount' = other[15]
    /\ UNCHANGED << config, dlq, cancelled, history, tmpl, data, rendered, validateErr >>

NextConc ==
    \/ Invoke(SingleBatches)
    \/ Switch
    \/ LoopExit
    \/ SendToDLQ
    \/ UnmarshalError
    \/ NoConfig
    \/ EnterProcessNotification
    \/ Sleep
    \/ DoRequestFrom(ConcOutcomes)
    \/ ReturnLastErr
    \/ ProcessNotificationReturns

SpecConc == Init /\ [][NextConc]_vars

\* what an invocation with stack L on a single message returns and does
\* when it runs alone, given the answers it got from the dead-letter
\* producer (L[3]) and from the endpoint (L[11])
AsWhenAlone(L) ==
    LET m == L[2][1]
        up == L[3]
        res == L[10]
        att == L[11]
        http == L[15][1]
        ft == L[14][1]
    IN  L[1] = "done" =>
          IF m.ReconsumeTimes >= config.MQ.MaxRetries
          THEN /\ res = (IF up THEN ConsumeSuccess ELSE ConsumeRetryLater)
               /\ ft = (IF up THEN "deadLettered" ELSE "dlqFailed")
               /\ http = 0
          ELSE IF ~Routed(m)
          THEN /\ res = ConsumeSuccess
               /\ ft \in {"undecodable", "unrouted"}
               /\ http = 0
          ELSE /\ http = Len(att)
               /\ http \in 1..3
               /\ \A n \in 1..(http - 1) : RetryableFailure(att[n])
               /\ ~RetryableFailure(att[http]) \/ http = 3
               /\ res = (IF Is2xx(att[http]) THEN ConsumeSuccess
                         ELSE ConsumeRetryLater)
               /\ ft = (IF Is2xx(att[http]) THEN "delivered" ELSE "deliverFailed")

\* the messages the two invocations have dead-lettered so far
DeadLetteredBy(L) ==
    IF Len(L[14]) = 1 /\ L[14][1] = "deadLettered" THEN 1 ELSE 0

ConcInv ==
    /\ AsWhenAlone(locals)
    /\ AsWhenAlone(other)
    /\ Len(dlq) = DeadLetteredBy(locals) + DeadLetteredBy(other)
    /\ \A L \in {locals, other} :
          DeadLetteredBy(L) = 1 =>
              \E n \in 1..Len(dlq) :
                  /\ dlq[n].Body = L[2][1].Body
                  /\ dlq[n].Topic = DLQTopicOf(L[2][1].Topic)

(***************************************************************************)
(* C14.  Under every interleaving of two invocations, each returns the     *)
(* disposition and causes the HTTP requests and dead-letter publishes it   *)
(* causes when it runs alone, and no step changes Worker.Config.           *)
(***************************************************************************)
C14_ConcurrentInvocationsIndependent ==
    []ConcInv /\ [][config' = config]_vars

C14_Witness ==
    /\ pc = "done"
    /\ fate = << "deadLettered" >>
    /\ result = ConsumeSuccess
    /\ other[1] = "sleep"
    /\ Len(other[11]) = 2
    /\ Len(dlq) = 1

(***************************************************************************)
(* renderBody.  A JSON value is a record [t, v] with t its Go type after   *)
(* json.Unmarshal (string, float64, bool, nil, []interface{},              *)
(* map[string]interface{}); a string is the sequence of its characters.    *)
(***************************************************************************)
JStr(cs) == [t |-> "string", v |-> cs]
JNum(n) == [t |-> "number", v |-> n]
JBool(b) == [t |-> "bool", v |-> b]
JArr(seq) == [t |-> "array", v |-> seq]
JObj(f) == [t |-> "object", v |-> f]

\* strings.HasPrefix
HasPrefix(str, prefix) ==
    Len(str) >= Len(prefix) /\ SubSeq(str, 1, Len(prefix)) = prefix

\* strings.HasSuffix
HasSuffix(str, suffix) ==
    Len(str) >= Len(suffix)
        /\ SubSeq(str, Len(str) - Len(suffix) + 1, Len(str)) = suffix

\* strings.Split(str, sep) for a one-character sep: the pieces between the
\* occurrences of sep, one more than there are occurrences
RECURSIVE Split(_, _)
Split(str, sep) ==
    LET hits == {n \in 1..Len(str) : str[n] = sep} IN
    IF hits = {} THEN << str >>
    ELSE LET first == CHOOSE n \in hits : \A m \in hits : n <= m
         IN  << SubSeq(str, 1, first - 1) >>
                 \o Split(SubSeq(str, first + 1, Len(str)), sep)

\* "{$.event."
EventPrefix == << "{", "$", ".", "e", "v", "e", "n", "t", "." >>

\* a variant that removes the braces only: val[1 : len(val)-1]
PathOf_BracesOnly(val) == SubSeq(val, 2, Len(val) - 1)

\* path := val[2 : len(val)-1]
PathOf(val) == SubSeq(val, 3, Len(val) - 1)

\* a variant that accepts deeper paths and does not look at parts[0]
IsEventPath_Loose(parts) == Len(parts) >= 3 /\ parts[2] = << "e", "v", "e", "n", "t" >>

\* len(parts) == 3 && parts[0] == "$" && parts[1] == "event"
IsEventPath(parts) ==
    /\ Len(parts) = 3
    /\ parts[1] = << "$" >>
    /\ parts[2] = << "e", "v", "e", "n", "t" >>

\* Worker.resolveValue
resolveValue(val, d) ==
    IF HasPrefix(val, EventPrefix) /\ HasSuffix(val, << "}" >>)
    THEN LET parts == Split(PathOf(val), ".") IN
         IF IsEventPath(parts)
         THEN IF parts[3] \in DOMAIN d THEN d[parts[3]] ELSE JStr(val)
         ELSE JStr(val)
    ELSE JStr(val)

\* Worker.replacePlaceholders
RECURSIVE replacePlaceholders(_, _)
replacePlaceholders(v, d) ==
    CASE v.t = "string" -> resolveValue(v.v, d)
      [] v.t = "object" ->
            JObj([k \in DOMAIN v.v |-> replacePlaceholders(v.v[k], d)])
      [] v.t = "array" ->
            JArr([n \in 1..Len(v.v) |-> replacePlaceholders(v.v[n], d)])
      [] OTHER -> v

(***************************************************************************)
(* Templates and event data renderBody is applied to.                      *)
(***************************************************************************)
PhF == << "{", "$", ".", "e", "v", "e", "n", "t", ".", "f", "}" >>
PhUserId == << "{", "$", ".", "e", "v", "e", "n", "t", ".", "u", "s", "e", "r", "_", "i", "d", "}" >>
PhMissing == << "{", "$", ".", "e", "v", "e", "n", "t", ".", "m", "i", "s", "s", "i", "n", "g", "}" >>
PhTwoSegments == << "{", "$", ".", "e", "v", "e", "n", "t", "}" >>
PhFourSegments == << "{", "$", ".", "e", "v", "e", "n", "t", ".", "a", ".", "b", "}" >>
PhDataSegment == << "{", "$", ".", "d", "a", "t", "a", ".", "f", "}" >>
PhEmptyField == << "{", "$", ".", "e", "v", "e", "n", "t", ".", "}" >>
PhSpaceField == << "{", "$", ".", "e", "v", "e", "n", "t", ".", "f", " ", "g", "}" >>
PhLeading == << "x", "{", "$", ".", "e", "v", "e", "n", "t", ".", "f", "}" >>
PhTrailing == << "{", "$", ".", "e", "v", "e", "n", "t", ".", "f", "}", "x" >>
PhUnclosed == << "{", "$", ".", "e", "v", "e", "n", "t", ".", "f" >>
Plain == << "p", "l", "a", "i", "n" >>
Empty == << >>

\* "{$.event.a}"
PhA == EventPrefix \o << "a", "}" >>

TemplateStrings ==
    {PhF, PhA, PhUserId, PhMissing, PhTwoSegments, PhFourSegments, PhDataSegment, PhEmptyField, PhSpaceField,
     PhLeading, PhTrailing, PhUnclosed, Plain, Empty}

\* keys of objects
KeyK == << "k" >>
KeyA == << "a" >>
KeyB == << "b" >>
KeyC == << "c" >>
KeyF == << "f" >>
KeyN == << "n" >>
KeyId == << "i", "d" >>
KeyUserId == << "u", "s", "e", "r", "_", "i", "d" >>

\* a template with one leaf
LeafTemplate(leaf) == JObj((KeyK :> leaf))

Leaves ==
    {JStr(str) : str \in TemplateStrings} \cup {JNum(5), JBool(TRUE), JNull}

\* {"id": "{$.event.user_id}", "n": 5}
IdTemplate == JObj((KeyId :> JStr(PhUserId)) @@ (KeyN :> JNum(5)))

\* {"a": ["x", "{$.event.f}"], "b": {"c": "{$.event.f}"}}
NestedTemplate ==
    JObj((KeyA :> JArr(<< JStr(<< "x" >>), JStr(PhF) >>))
         @@ (KeyB :> JObj((KeyC :> JStr(PhF)))))

\* {"a": [[1, "{$.event.f}", null], "{$.event.a.b}"], "b": {"c": {"f": "{$.event.user_id}", "n": false}}}
DeepTemplate ==
    JObj((KeyA :> JArr(<< JArr(<< JNum(1), JStr(PhF), JNull >>),
                          JStr(PhFourSegments) >>))
         @@ (KeyB :> JObj((KeyC :> JObj((KeyF :> JStr(PhUserId))
                                        @@ (KeyN :> JBool(FALSE)))))))

Templates ==
    {LeafTemplate(leaf) : leaf \in Leaves}
        \cup {IdTemplate, NestedTemplate, DeepTemplate}

\* evt.Data
NoData == << >>
StringData == (KeyF :> JStr(<< "v" >>)) @@ (KeyUserId :> JStr(<< "4", "2" >>))
TypedData ==
    (KeyF :> JNum(7)) @@ (KeyUserId :> JObj((KeyN :> JNum(1))))
        @@ (KeyA :> JArr(<< JBool(TRUE), JNull >>))
OddKeyData ==
    (<< >> :> JStr(<< "e" >>))
        @@ (<< "f", " ", "g" >> :> JStr(<< "s" >>))
        @@ (<< "a", ".", "b" >> :> JStr(<< "d" >>))
        @@ (KeyA :> JStr(<< "A" >>))
        @@ (<< "e", "v", "e", "n", "t" >> :> JStr(<< "E" >>))
        @@ (KeyF :> JStr(<< "v" >>))
PlaceholderData ==
    (KeyF :> JStr(PhUserId)) @@ (KeyUserId :> JStr(<< "4", "2" >>))
        @@ (KeyA :> JArr(<< JStr(PhF) >>))

DataMaps == {NoData, StringData, TypedData, OddKeyData, PlaceholderData}

(***************************************************************************)
(* renderBody on its own: a template and an event are chosen, and          *)
(* replacePlaceholders is applied once.                                    *)
(***************************************************************************)
InitRender ==
    /\ config \in Configs
    /\ pc = "render"
    /\ msgs = << >>
    /\ dlqUp = TRUE
    /\ idx = 0
    /\ evt = NoEvent
    /\ notifyConfig = 0
    /\ i = 0
    /\ lastErr = NoError
    /\ err = NoError
    /\ result = "none"
    /\ attempts = << >>
    /\ sleeps = << >>
    /\ steps = << >>
    /\ fate = << >>
    /\ httpCount = << >>
    /\ dlq = << >>
    /\ cancelled = FALSE
    /\ other = IdleLocals
    /\ history = NoHistory
    /\ tmpl \in Templates
    /\ data \in DataMaps
    /\ rendered = JNull
    /\ validateErr = NoValidateError

\* rendered := w.replacePlaceholders(templateBody, evt)
RenderBody ==
    /\ pc = "render"
    /\ rendered' = replacePlaceholders(tmpl, data)
    /\ pc' = "rendered"
    /\ UNCHANGED << config, msgs, dlqUp, idx, evt, notifyConfig, i, lastErr,
                    err, result, attempts, sleeps, steps, fate, httpCount,
                    dlq, cancelled, other, history, tmpl, data,
                    validateErr >>

NextRender == RenderBody

SpecRender == InitRender /\ [][NextRender]_vars

(***************************************************************************)
(* The placeholder grammar of the specification: "{$.event." followed by   *)
(* one identifier and "}".                                                  *)
(***************************************************************************)
IdentChars ==
    {"a", "b", "c", "d", "e", "f", "g", "h", "i", "j", "k", "l", "m", "n",
     "o", "p", "q", "r", "s", "t", "u", "v", "w", "x", "y", "z", "_",
     "0", "1", "2", "3", "4", "5", "6", "7", "8", "9"}

Matches(str) ==
    /\ Len(str) >= 11
    /\ SubSeq(str, 1, 9) = EventPrefix
    /\ str[Len(str)] = "}"
    /\ \A n \in 10..(Len(str) - 1) : str[n] \in IdentChars

\* the <field> of a string that matches
FieldOf(str) == SubSeq(str, 10, Len(str) - 1)

\* what the specification has a string leaf become
ExpectedLeaf(str, d) ==
    IF Matches(str) /\ FieldOf(str) \in DOMAIN d THEN d[FieldOf(str)]
    ELSE JStr(str)

\* what the specification has a template become
RECURSIVE ExpectedRender(_, _)
ExpectedRender(v, d) ==
    CASE v.t = "string" -> ExpectedLeaf(v.v, d)
      [] v.t = "object" -> JObj([k \in DOMAIN v.v |-> ExpectedRender(v.v[k], d)])
      [] v.t = "array" -> JArr([n \in 1..Len(v.v) |-> ExpectedRender(v.v[n], d)])
      [] OTHER -> v

(***************************************************************************)
(* C15.  A string leaf that does not match the grammar exactly (empty or   *)
(* non-identifier field, text before or after the placeholder, missing     *)
(* brace, other path) is rendered unchanged, whatever evt.Data holds.      *)
(***************************************************************************)
C15_NonMatchingUnchanged ==
    pc = "rendered" =>
        \A str \in TemplateStrings :
            (tmpl = LeafTemplate(JStr(str)) /\ ~Matches(str)) =>
                rendered = LeafTemplate(JStr(str))

C15_Witness ==
    /\ pc = "rendered"
    /\ tmpl = LeafTemplate(JStr(PhEmptyField))
    /\ data = OddKeyData
    /\ rendered = LeafTemplate(JStr(PhEmptyField))

(***************************************************************************)
(* C16.  "{$.event}", "{$.event.a.b}" and "{$.data.f}" are rendered        *)
(* verbatim for every event, also when evt.Data has the keys "a", "a.b",   *)
(* "event" or "f", and also when the leaf sits inside a nested template.   *)
(***************************************************************************)
C16_OtherPathsVerbatim ==
    pc = "rendered" =>
        /\ \A str \in {PhTwoSegments, PhFourSegments, PhDataSegment} :
              tmpl = LeafTemplate(JStr(str)) => rendered.v[KeyK] = JStr(str)
        /\ tmpl = DeepTemplate => rendered.v[KeyA].v[2] = JStr(PhFourSegments)

C16_Witness ==
    /\ pc = "rendered"
    /\ tmpl = LeafTemplate(JStr(PhFourSegments))
    /\ data = OddKeyData
    /\ << "a", ".", "b" >> \in DOMAIN data
    /\ rendered.v[KeyK] = JStr(PhFourSegments)

(***************************************************************************)
(* C17.  A string leaf that matches "{$.event.<field>}" is rendered as     *)
(* evt.Data[<field>], with the type it has there, when <field> is a key    *)
(* of evt.Data, and as the placeholder string itself when it is not.       *)
(***************************************************************************)
C17_MatchingResolves ==
    pc = "rendered" =>
        \A str \in TemplateStrings :
            (tmpl = LeafTemplate(JStr(str)) /\ Matches(str)) =>
                rendered.v[KeyK] =
                    (IF FieldOf(str) \in DOMAIN data THEN data[FieldOf(str)]
                     ELSE JStr(str))

(***************************************************************************)
(* C18.  The rendered tree has the shape of the template at every depth    *)
(* (same keys, same array lengths and order, numbers, booleans and null    *)
(* unchanged) and every string leaf is resolved on its own.                *)
(***************************************************************************)
C18_StructuralMap ==
    pc = "rendered" => rendered = ExpectedRender(tmpl, data)

(***************************************************************************)
(* The successive deliveries of one message.  The broker hands the message *)
(* over in a batch of one with ReconsumeTimes 0; each time HandleMessage   *)
(* returns ConsumeRetryLater it delivers the message again with            *)
(* ReconsumeTimes one higher (the count stays at MaxReconsume once it is   *)
(* reached); ConsumeSuccess retires the message.  SendSync succeeds or     *)
(* fails anew in every delivery, and a failed SendSync publishes nothing.  *)
(***************************************************************************)
FirstBatches == {<< m >> : m \in {n \in Messages : n.ReconsumeTimes = 0}}

BrokerOutcomes == {TransportError, Response(200), Response(404), Response(503)}

Min(a, b) == IF a <= b THEN a ELSE b

\* the count the broker stamps on the next delivery of msg
NextReconsumeTimes(msg) == Min(msg.ReconsumeTimes + 1, MaxReconsume)

\* the history with the invocation that has just returned added to it
Fold(h) ==
    [delivers |-> Min(h.delivers + (IF "render" \in steps[1] THEN 1 ELSE 0),
                      MaxReconsume + 1),
     requests |-> Min(h.requests + httpCount[1], maxLocalRetries * (MaxReconsume + 1)),
     dlqFailed |-> h.dlqFailed \/ fate[1] = "dlqFailed"]

\* HandleMessage returned ConsumeRetryLater: the broker calls it again
Redeliver ==
    /\ pc = "done"
    /\ result = ConsumeRetryLater
    /\ history' = Fold(history)
    /\ msgs' = << [msgs[1] EXCEPT !.ReconsumeTimes = NextReconsumeTimes(msgs[1])] >>
    /\ dlqUp' \in BOOLEAN
    /\ idx' = 1
    /\ evt' = NoEvent
    /\ notifyConfig' = 0
    /\ i' = 0
    /\ lastErr' = NoError
    /\ err' = NoError
    /\ result' = "none"
    /\ attempts' = << >>
    /\ sleeps' = << >>
    /\ steps' = << {} >>
    /\ fate' = << "unexamined" >>
    /\ httpCount' = << 0 >>
    /\ pc' = "loop"
    /\ UNCHANGED << config, dlq, cancelled, other, tmpl, data, rendered, validateErr >>

NextBroker ==
    \/ Invoke(FirstBatches)
    \/ Redeliver
    \/ LoopExit
    \/ SendToDLQ
    \/ UnmarshalError
    \/ NoConfig
    \/ EnterProcessNotification
    \/ Sleep
    \/ DoRequestFrom(BrokerOutcomes)
    \/ ReturnLastErr
    \/ ProcessNotificationReturns

SpecBroker == Init /\ [][NextBroker]_vars

\* the handler runs to its return and the broker does redeliver
FairSpecBroker == SpecBroker /\ WF_vars(NextBroker)

\* the message has been handed to the handler
Delivered == pc # "idle"

\* HandleMessage has returned ConsumeSuccess: the message is retired
Acknowledged == pc = "done" /\ result = ConsumeSuccess

\* all invocations so far, the current one included
TotalDelivers == Fold(history).delivers
TotalRequests == Fold(history).requests

(***************************************************************************)
(* C19.  Once sendToDLQ has failed in a delivery of the message, every     *)
(* later delivery calls sendToDLQ again and issues no HTTP request; a      *)
(* failed publish returns ConsumeRetryLater, the first successful publish  *)
(* returns ConsumeSuccess, and when the message is acknowledged that way   *)
(* the dead-letter topic holds it exactly once.                            *)
(***************************************************************************)
C19_EscalationRetriedUntilPublished ==
    Delivered =>
        /\ history.dlqFailed =>
              /\ pc \in {"loop", "done"}
              /\ httpCount[1] = 0
              /\ steps[1] \subseteq {"dlq"}
              /\ pc = "done" => "dlq" \in steps[1]
        /\ (pc = "done" /\ fate[1] = "dlqFailed") =>
              (result = ConsumeRetryLater /\ dlq = << >>)
        /\ fate[1] = "deadLettered" =>
              (Acknowledged /\ dlq = << DLQMessage(msgs[1]) >>)
        /\ ~Acknowledged => dlq = << >>

C19_Witness ==
    /\ history.dlqFailed
    /\ Acknowledged
    /\ fate[1] = "deadLettered"
    /\ msgs[1].ReconsumeTimes > config.MQ.MaxRetries
    /\ Len(dlq) = 1

(***************************************************************************)
(* C20.  A message is handed to processNotification in at most max_retries *)
(* invocations, which issue at most 3 * max_retries HTTP requests; when    *)
(* every delivery fails the invocation with ReconsumeTimes = max_retries   *)
(* is the first to call sendToDLQ, after exactly max_retries invocations   *)
(* of processNotification; and if SendSync succeeds in infinitely many     *)
(* deliveries (so also if it succeeds from some point on), the message is  *)
(* eventually acknowledged.                                                *)
(***************************************************************************)
BoundedReprocessing ==
    Delivered =>
        /\ TotalDelivers <= config.MQ.MaxRetries
        /\ TotalRequests <= maxLocalRetries * config.MQ.MaxRetries
        /\ "dlq" \in steps[1] =>
              /\ history.delivers = config.MQ.MaxRetries
              /\ msgs[1].ReconsumeTimes >= config.MQ.MaxRetries
              /\ ~history.dlqFailed => msgs[1].ReconsumeTimes = config.MQ.MaxRetries
        /\ (pc = "loop" /\ idx = 1 /\ history.delivers = config.MQ.MaxRetries) =>
              ENABLED SendToDLQ

C20_BoundedAndEventuallyRetired ==
    /\ []BoundedReprocessing
    /\ ([]<>dlqUp) => <>Acknowledged

C20_Witness ==
    /\ Acknowledged
    /\ fate[1] = "deadLettered"
    /\ history.delivers = config.MQ.MaxRetries
    /\ history.requests = maxLocalRetries * config.MQ.MaxRetries
    /\ config.MQ.MaxRetries = MaxRetriesCfg
    /\ ~history.dlqFailed

(***************************************************************************)
(* Config.Validate, as LoadConfig calls it on the decoded file before the  *)
(* worker is built, followed by the deliveries of one message.             *)
(***************************************************************************)
\* longest notifications list of a decoded file
MaxRules == 2

\* c.MQ.MaxRetries = 16
DefaultMaxRetries == 16

\* the mq sections json.Unmarshal may produce; an absent field is "" or 0
RawMQs ==
    [NameServer : {"", "127.0.0.1:9876"}, GroupName : {"", "notification_group"},
     MaxRetries : (-1)..MaxRetriesCfg]

\* the rule of config.json and rules that differ from it in one field
Reg == Notifications[1]
RegAlt == [Reg EXCEPT !.URL = "https://example.com/hook"]
RegUpper == [Reg EXCEPT !.EventType = "Registration"]
RegPrefix == [Reg EXCEPT !.EventType = "reg"]
NoType == [Reg EXCEPT !.EventType = ""]
NoQueue == [Reg EXCEPT !.QueueName = ""]
NoMethod == [Reg EXCEPT !.Method = ""]
LowerMethod == [Reg EXCEPT !.Method = "post"]
BadMethod == [Reg EXCEPT !.Method = "FETCH"]
NoURL == [Reg EXCEPT !.URL = ""]
BadURL == [Reg EXCEPT !.URL = "httpbin"]

Rules ==
    {Reg, RegAlt, RegUpper, RegPrefix, NoType, NoQueue, NoMethod, LowerMethod,
     BadMethod, NoURL, BadURL}

RawConfigs ==
    [MQ : RawMQs, Notifications : UNION {[1..n -> Rules] : n \in 0..MaxRules}]

\* strings.ToUpper on the methods above
ToUpper(str) == IF str = "post" THEN "POST" ELSE str

validMethods == {"GET", "POST", "PUT", "DELETE", "PATCH"}

\* url.ParseRequestURI on the URLs above: nil for an absolute URI, an error
\* for a relative reference without a leading slash
ParseRequestURIFails(u) == u \notin {"https://httpbin.org/post", "https://example.com/hook"}

\* the first check of the loop body that rule n fails, "nil" when none does
RuleError(n) ==
    CASE n.EventType = "" -> "event_type is required"
      [] n.QueueName = "" -> "queue_name is required"
      [] n.Method = "" -> "http_method is required"
      [] ToUpper(n.Method) \notin validMethods -> "http_method is invalid"
      [] n.URL = "" -> "http_url is required"
      [] ParseRequestURIFails(n.URL) -> "http_url is invalid"
      [] OTHER -> "nil"

\* a variant that leaves max_retries at zero
WithDefaultMaxRetries_KeepZero(n) == n

\* if c.MQ.MaxRetries == 0 { c.MQ.MaxRetries = 16 }
WithDefaultMaxRetries(n) == IF n = 0 THEN DefaultMaxRetries ELSE n

\* the value Validate returns for c
ValidateError(c) ==
    LET bad == {n \in 1..Len(c.Notifications) : RuleError(c.Notifications[n]) # "nil"}
        first == CHOOSE n \in bad : \A m \in bad : n <= m
    IN  CASE c.MQ.NameServer = "" -> ValidateErr("mq.name_server is required", -1)
          [] c.MQ.GroupName = "" -> ValidateErr("mq.group_name is required", -1)
          [] c.MQ.MaxRetries < 0 -> ValidateErr("mq.max_retries cannot be negative", -1)
          [] Len(c.Notifications) = 0 -> ValidateErr("no notifications configured", -1)
          [] bad # {} -> ValidateErr(RuleError(c.Notifications[first]), first - 1)
          [] OTHER -> NoValidateError

\* what Validate leaves in c: the default is written once the three checks of
\* the mq section have passed, whatever the rules turn out to be
AfterValidate(c) ==
    IF c.MQ.NameServer = "" \/ c.MQ.GroupName = "" \/ c.MQ.MaxRetries < 0
    THEN c
    ELSE [c EXCEPT !.MQ.MaxRetries = WithDefaultMaxRetries(@)]

InitValidate ==
    /\ config \in RawConfigs
    /\ pc = "validate"
    /\ msgs = << >>
    /\ dlqUp = TRUE
    /\ idx = 0
    /\ evt = NoEvent
    /\ notifyConfig = 0
    /\ i = 0
    /\ lastErr = NoError
    /\ err = NoError
    /\ result = "none"
    /\ attempts = << >>
    /\ sleeps = << >>
    /\ steps = << >>
    /\ fate = << >>
    /\ httpCount = << >>
    /\ dlq = << >>
    /\ cancelled = FALSE
    /\ other = IdleLocals
    /\ history = NoHistory
    /\ tmpl = JNull
    /\ data = << >>
    /\ rendered = JNull
    /\ validateErr = NoValidateError

\* config.Validate() in LoadConfig; on an error no worker is started
Validate ==
    /\ pc = "validate"
    /\ validateErr' = ValidateError(config)
    /\ config' = AfterValidate(config)
    /\ pc' = IF ValidateError(config) = NoValidateError THEN "idle" ELSE "invalid"
    /\ UNCHANGED << msgs, dlqUp, idx, evt, notifyConfig, i, lastErr, err,
                    result, attempts, sleeps, steps, fate, httpCount, dlq,
                    cancelled, other, history, tmpl, data, rendered >>

NextValidate ==
    \/ Validate
    \/ Invoke(SingleBatches)
    \/ LoopExit
    \/ SendToDLQ
    \/ UnmarshalError
    \/ NoConfig
    \/ EnterProcessNotification
    \/ Sleep
    \/ DoRequestFrom(BrokerOutcomes)
    \/ ReturnLastErr
    \/ ProcessNotificationReturns

SpecValidate == InitValidate /\ [][NextValidate]_vars

\* Validate has run and returned nil
Validated == pc \notin {"validate", "invalid"}

\* event types a lookup may be made with
LookupTypes == {"registration", "Registration", "reg", "registrations", "payment", ""}

\* the rules of the table whose eventType is t
RulesOfType(t) ==
    {n \in 1..Len(config.Notifications) : config.Notifications[n].EventType = t}

(***************************************************************************)
(* C21.  A configuration that passed Validate holds at most one rule per   *)
(* event type, and FindNotificationConfig(t) is that rule when some rule's *)
(* EventType equals t and nil (0) when none does.                          *)
(***************************************************************************)
C21_OneRulePerEventType ==
    Validated =>
        \A t \in LookupTypes :
            /\ Cardinality(RulesOfType(t)) <= 1
            /\ RulesOfType(t) = {} => FindNotificationConfig(t) = 0
            /\ RulesOfType(t) # {} => RulesOfType(t) = {FindNotificationConfig(t)}

(***************************************************************************)
(* C22.  Validate fails on a negative max_retries; when it returns nil,    *)
(* max_retries is 16 if it was 0 and the given value otherwise, hence at   *)
(* least 1; and a message delivered with ReconsumeTimes = 0 is never sent  *)
(* to the dead-letter topic.                                               *)
(***************************************************************************)
MaxRetriesPositive ==
    Validated =>
        /\ config.MQ.MaxRetries >= 1
        /\ (Delivered /\ msgs[1].ReconsumeTimes = 0) =>
              /\ "dlq" \notin steps[1]
              /\ fate[1] \notin {"deadLettered", "dlqFailed"}
              /\ dlq = << >>

ValidateSetsMaxRetries ==
    pc = "validate" =>
        /\ config.MQ.MaxRetries < 0 => (validateErr' # NoValidateError /\ pc' = "invalid")
        /\ validateErr' = NoValidateError =>
              config'.MQ.MaxRetries =
                  (IF config.MQ.MaxRetries = 0 THEN 16 ELSE config.MQ.MaxRetries)

C22_MaxRetriesAtLeastOne ==
    /\ []MaxRetriesPositive
    /\ [][ValidateSetsMaxRetries]_vars

C22_Witness ==
    /\ Validated
    /\ config.MQ.MaxRetries = 16
    /\ pc = "done"
    /\ msgs[1].ReconsumeTimes = 0
    /\ fate[1] = "deliverFailed"
    /\ result = ConsumeRetryLater

(***************************************************************************)
(* C23.  A value taken from evt.Data is put into the output as it is and   *)
(* is not scanned again: with "f" holding the string "{$.event.user_id}"   *)
(* and "a" holding the array ["{$.event.f}"], the template leaf            *)
(* "{$.event.f}" is rendered as the string "{$.event.user_id}" and         *)
(* "{$.event.a}" as ["{$.event.f}"], although "user_id" and "f" are keys   *)
(* of evt.Data.                                                            *)
(***************************************************************************)
C23_SinglePass ==
    (pc = "rendered" /\ data = PlaceholderData) =>
        /\ tmpl = LeafTemplate(JStr(PhF)) => rendered.v[KeyK] = JStr(PhUserId)
        /\ tmpl = LeafTemplate(JStr(PhA)) => rendered.v[KeyK] = JArr(<< JStr(PhF) >>)
        /\ tmpl = NestedTemplate =>
              /\ rendered.v[KeyA].v[2] = JStr(PhUserId)
              /\ rendered.v[KeyB].v[KeyC] = JStr(PhUserId)

====
